---- MODULE Spec2Model ----
(***************************************************************************)
(* The routing trie of src/main.cpp: address_prefix::pop_bit,              *)
(* routing_trie::insert and routing_trie::find, driven as main() drives    *)
(* them: parse_data() inserts the rows of the table one by one (and the    *)
(* process aborts on a duplicate prefix), then the queries are answered by *)
(* find on the loaded trie.                                                *)
(*                                                                         *)
(* Addresses are AddrBits wide instead of 128 bits wide; everything else   *)
(* is computed the way the code computes it.  A node is named by its       *)
(* position in the tree: the root is node 1 and the child b of node n is   *)
(* node 2n+b, so that a node pointer is a positive integer and the null    *)
(* pointer is 0.  A std::optional is a sequence of length 0 or 1.          *)
(***************************************************************************)
EXTENDS Integers, Sequences, FiniteSets, TLC

\* Width of an address in bits (128 in the code, scaled down).
AddrBits == 3
\* Number of rows parse_data() reads from the table before the queries start.
MaxRows == 3
\* Width of `unsigned` in bits (32 in the code, scaled down to fit TLC's integers).
UnsignedBits == 16
\* The PoP identifiers the rows of the table carry.
Pops == {1, 2}

\* 2^n (a shift by n bits), tabulated for n up to the width of `unsigned`.
RECURSIVE Shl(_)
Shl(n) == IF n = 0 THEN 1 ELSE 2 * Shl(n - 1)
Pow2Table == [n \in 0 .. UnsignedBits |-> Shl(n)]
Pow2(n) == Pow2Table[n]

\* The uint128_t values (scaled to AddrBits bits) the rows of the table and
\* the queries are drawn from: 00..0 and 01..1.  With the lengths
\* 0 .. AddrBits they give nested prefixes, sibling prefixes (00 and 01), a
\* node whose only child is its 1-child (01), and prefixes whose address has
\* non-zero bits beyond the prefix length (01..1 with a length below 2).
Addresses == {0, Pow2(AddrBits - 1) - 1}
\* address_prefix::highest_bit
highest_bit == Pow2(AddrBits - 1)
\* the largest value of `unsigned`, which prefix_length-- wraps to at 0
UnsignedMax == Pow2(UnsignedBits) - 1

\* std::nullopt and an engaged std::optional
nullopt == << >>
Some(x) == << x >>
HasValue(o) == o # << >>
Value(o) == o[1]

\* struct address_prefix
address_prefix == [address : Addresses, prefix_length : 0 .. AddrBits]
\* struct prefix_and_pop
prefix_and_pop == [prefix : address_prefix, pop : Pops]

\* pop_bit that tells exhaustion from the address having run out of set bits
\* as well as from the length: bits beyond the length are handed out.
pop_bit_UntilZero(p) ==
    IF p.prefix_length = 0 /\ p.address = 0
    THEN [bit |-> nullopt,
          prefix |-> [address |-> p.address, prefix_length |-> UnsignedMax]]
    ELSE [bit |-> Some(IF p.address >= highest_bit THEN 1 ELSE 0),
          prefix |-> [address |-> (p.address * 2) % Pow2(AddrBits),
                      prefix_length |-> IF p.prefix_length = 0
                                        THEN 0 ELSE p.prefix_length - 1]]

\* pop_bit that shifts the address before it looks at the length: the
\* exhausted call shifts too.
pop_bit_ShiftFirst(p) ==
    IF p.prefix_length = 0
    THEN [bit |-> nullopt,
          prefix |-> [address |-> (p.address * 2) % Pow2(AddrBits),
                      prefix_length |-> UnsignedMax]]
    ELSE [bit |-> Some(IF p.address >= highest_bit THEN 1 ELSE 0),
          prefix |-> [address |-> (p.address * 2) % Pow2(AddrBits),
                      prefix_length |-> p.prefix_length - 1]]

\* address_prefix::pop_bit: the bit returned and the cursor it leaves behind.
pop_bit(p) ==
    IF p.prefix_length = 0
    THEN [bit |-> nullopt,
          prefix |-> [address |-> p.address, prefix_length |-> UnsignedMax]]
    ELSE [bit |-> Some(IF p.address >= highest_bit THEN 1 ELSE 0),
          prefix |-> [address |-> (p.address * 2) % Pow2(AddrBits),
                      prefix_length |-> p.prefix_length - 1]]

\* The null node pointer, and &root.
Absent == 0
RootNode == 1

\* current->children[b].get() in trie t: the child, or the null pointer.
children(t, n, b) == IF (2 * n + b) \in DOMAIN t THEN 2 * n + b ELSE Absent

\* A new child that starts as a copy of its parent, payload included.
MakeChild_CopyParent(t, n, b) ==
    [m \in (DOMAIN t) \cup {2 * n + b} |-> IF m = 2 * n + b THEN t[n] ELSE t[m]]

\* std::make_unique<node>() stored in current->children[b]
MakeChild(t, n, b) ==
    [m \in (DOMAIN t) \cup {2 * n + b} |-> IF m = 2 * n + b THEN nullopt ELSE t[m]]

\* A default-constructed routing_trie: a root with no payload and no children.
EmptyTrie == [m \in {RootNode} |-> nullopt]

\* root:   the trie (routing_trie::root and the nodes it owns): position -> pop
\* table:  the rows insert has stored so far
\* lines:  the number of rows parse_data() has handed to insert
\* failed: the row at which insert called std::abort(), if it did
\* query, result: the argument of find and what it returned, once called
VARIABLES root, table, lines, failed, query, result

vars == << root, table, lines, failed, query, result >>

(***************************************************************************)
(* routing_trie::insert                                                    *)
(***************************************************************************)

\* InsertLoop with `if (!current->children[*bit])` dropped: the child is always
\* replaced by a fresh node, which throws away the subtree that was there.
RECURSIVE InsertLoop_AlwaysCreate(_)
InsertLoop_AlwaysCreate(w) ==
    LET r == pop_bit(w.prefix) IN
    IF ~HasValue(r.bit)
    THEN [w EXCEPT !.prefix = r.prefix, !.pop_calls = @ + 1]
    ELSE LET b == Value(r.bit)
             c == 2 * w.current + b
             kept == {m \in DOMAIN w.root :
                         ~(\E k \in 0 .. AddrBits : m \div Pow2(k) = c)}
             t == [m \in kept \cup {c} |-> IF m = c THEN nullopt ELSE w.root[m]]
         IN InsertLoop_AlwaysCreate([root |-> t,
                                     current |-> c,
                                     prefix |-> r.prefix,
                                     pop_calls |-> w.pop_calls + 1])

\* The loop of insert: pop a bit, create the child if it is missing, descend.
\* w is [root, current, prefix, pop_calls]; the result is w at loop exit.
RECURSIVE InsertLoop(_)
InsertLoop(w) ==
    LET r == pop_bit(w.prefix) IN
    IF ~HasValue(r.bit)
    THEN [w EXCEPT !.prefix = r.prefix, !.pop_calls = @ + 1]
    ELSE LET b == Value(r.bit)
             t == IF children(w.root, w.current, b) = Absent
                  THEN MakeChild(w.root, w.current, b)
                  ELSE w.root
         IN InsertLoop([root |-> t,
                        current |-> children(t, w.current, b),
                        prefix |-> r.prefix,
                        pop_calls |-> w.pop_calls + 1])

\* insert without the duplicate check: the payload is overwritten.
insert_Overwrite(t, e) ==
    LET w == InsertLoop([root |-> t, current |-> RootNode,
                         prefix |-> e.prefix, pop_calls |-> 0])
    IN [root |-> [w.root EXCEPT ![w.current] = Some(e.pop)],
        aborted |-> FALSE, e |-> e,
        prefix |-> w.prefix, pop_calls |-> w.pop_calls]

\* insert that checks and writes the node one step short of the end of the
\* path: the node it created last stays empty.
insert_StoreInParent(t, e) ==
    LET w == InsertLoop([root |-> t, current |-> RootNode,
                         prefix |-> e.prefix, pop_calls |-> 0])
        n == IF w.current = RootNode THEN RootNode ELSE w.current \div 2
    IN IF HasValue(w.root[n])
       THEN [root |-> w.root, aborted |-> TRUE, e |-> e,
             prefix |-> w.prefix, pop_calls |-> w.pop_calls]
       ELSE [root |-> [w.root EXCEPT ![n] = Some(e.pop)],
             aborted |-> FALSE, e |-> e,
             prefix |-> w.prefix, pop_calls |-> w.pop_calls]

\* insert that writes the payload first and looks for the duplicate after:
\* at the error the node already holds the PoP id of the rejected row.
insert_StoreThenCheck(t, e) ==
    LET w == InsertLoop([root |-> t, current |-> RootNode,
                         prefix |-> e.prefix, pop_calls |-> 0])
    IN [root |-> [w.root EXCEPT ![w.current] = Some(e.pop)],
        aborted |-> HasValue(w.root[w.current]), e |-> e,
        prefix |-> w.prefix, pop_calls |-> w.pop_calls]

\* insert(e) on trie t: the trie it leaves, whether it ran into std::abort(),
\* the argument e as it is afterwards, and the local cursor.
insert(t, e) ==
    LET w == InsertLoop([root |-> t, current |-> RootNode,
                         prefix |-> e.prefix, pop_calls |-> 0])
    IN IF HasValue(w.root[w.current])
       THEN [root |-> w.root, aborted |-> TRUE, e |-> e,
             prefix |-> w.prefix, pop_calls |-> w.pop_calls]
       ELSE [root |-> [w.root EXCEPT ![w.current] = Some(e.pop)],
             aborted |-> FALSE, e |-> e,
             prefix |-> w.prefix, pop_calls |-> w.pop_calls]

(***************************************************************************)
(* routing_trie::find                                                      *)
(***************************************************************************)

\* struct pop_and_prefix_length
PopAndPrefixLength(p, d) == [pop |-> p, prefix_length |-> d]

\* FindWalk with ++depth moved behind the update of best: the matched length
\* is one short.
RECURSIVE FindWalk_DepthLate(_, _)
FindWalk_DepthLate(t, f) ==
    LET r == pop_bit(f.prefix) IN
    IF ~(HasValue(r.bit) /\ f.current # Absent)
    THEN [f EXCEPT !.prefix = r.prefix, !.pop_calls = @ + 1]
    ELSE LET current == children(t, f.current, Value(r.bit))
         IN FindWalk_DepthLate(t, [prefix |-> r.prefix,
                         current |-> current,
                         depth |-> f.depth + 1,
                         best |-> IF current # Absent /\ HasValue(t[current])
                                  THEN Some(PopAndPrefixLength(Value(t[current]), f.depth))
                                  ELSE f.best,
                         moves |-> f.moves + 1,
                         pop_calls |-> f.pop_calls + 1])

\* FindWalk that keeps the first payload it meets instead of the last.
RECURSIVE FindWalk_FirstWins(_, _)
FindWalk_FirstWins(t, f) ==
    LET r == pop_bit(f.prefix) IN
    IF ~(HasValue(r.bit) /\ f.current # Absent)
    THEN [f EXCEPT !.prefix = r.prefix, !.pop_calls = @ + 1]
    ELSE LET depth == f.depth + 1
             current == children(t, f.current, Value(r.bit))
         IN FindWalk_FirstWins(t, [prefix |-> r.prefix,
                         current |-> current,
                         depth |-> depth,
                         best |-> IF /\ current # Absent
                                     /\ HasValue(t[current])
                                     /\ ~HasValue(f.best)
                                  THEN Some(PopAndPrefixLength(Value(t[current]), depth))
                                  ELSE f.best,
                         moves |-> f.moves + 1,
                         pop_calls |-> f.pop_calls + 1])

\* FindWalk followed by one more pop_bit to see whether the query had bits
\* left: after a walk that used up the cursor, the call is made on the
\* cursor that already returned none.
RECURSIVE FindWalk_PopAgain(_, _)
FindWalk_PopAgain(t, f) ==
    LET r == pop_bit(f.prefix) IN
    IF ~(HasValue(r.bit) /\ f.current # Absent)
    THEN [f EXCEPT !.prefix = pop_bit(r.prefix).prefix, !.pop_calls = @ + 2]
    ELSE LET depth == f.depth + 1
             current == children(t, f.current, Value(r.bit))
         IN FindWalk_PopAgain(t, [prefix |-> r.prefix,
                         current |-> current,
                         depth |-> depth,
                         best |-> IF current # Absent /\ HasValue(t[current])
                                  THEN Some(PopAndPrefixLength(Value(t[current]), depth))
                                  ELSE f.best,
                         moves |-> f.moves + 1,
                         pop_calls |-> f.pop_calls + 1])

\* The first loop of find (Phase A).  f is [prefix, current, depth, best,
\* moves, pop_calls]: moves counts the assignments to current.
RECURSIVE FindWalk(_, _)
FindWalk(t, f) ==
    LET r == pop_bit(f.prefix) IN
    IF ~(HasValue(r.bit) /\ f.current # Absent)
    THEN [f EXCEPT !.prefix = r.prefix, !.pop_calls = @ + 1]
    ELSE LET depth == f.depth + 1
             current == children(t, f.current, Value(r.bit))
         IN FindWalk(t, [prefix |-> r.prefix,
                         current |-> current,
                         depth |-> depth,
                         best |-> IF current # Absent /\ HasValue(t[current])
                                  THEN Some(PopAndPrefixLength(Value(t[current]), depth))
                                  ELSE f.best,
                         moves |-> f.moves + 1,
                         pop_calls |-> f.pop_calls + 1])

\* FindFallback without ++depth: the matched length stays the query's.
RECURSIVE FindFallback_NoDepth(_, _)
FindFallback_NoDepth(t, f) ==
    IF ~(f.current # Absent /\ ~HasValue(f.best))
    THEN f
    ELSE IF HasValue(t[f.current])
         THEN [f EXCEPT !.best = Some(PopAndPrefixLength(Value(t[f.current]), f.depth))]
         ELSE FindFallback_NoDepth(t, [f EXCEPT
                  !.current = IF children(t, f.current, 0) # Absent
                              THEN children(t, f.current, 0)
                              ELSE children(t, f.current, 1),
                  !.moves = @ + 1])

\* FindFallback that only ever descends into the 0-child.
RECURSIVE FindFallback_ZeroOnly(_, _)
FindFallback_ZeroOnly(t, f) ==
    IF ~(f.current # Absent /\ ~HasValue(f.best))
    THEN f
    ELSE IF HasValue(t[f.current])
         THEN [f EXCEPT !.best = Some(PopAndPrefixLength(Value(t[f.current]), f.depth))]
         ELSE FindFallback_ZeroOnly(t, [f EXCEPT
                  !.depth = @ + 1,
                  !.current = children(t, f.current, 0),
                  !.moves = @ + 1])

\* FindFallback that prefers the 1-child to the 0-child.
RECURSIVE FindFallback_OneFirst(_, _)
FindFallback_OneFirst(t, f) ==
    IF ~(f.current # Absent /\ ~HasValue(f.best))
    THEN f
    ELSE IF HasValue(t[f.current])
         THEN [f EXCEPT !.best = Some(PopAndPrefixLength(Value(t[f.current]), f.depth))]
         ELSE FindFallback_OneFirst(t, [f EXCEPT
                  !.depth = @ + 1,
                  !.current = IF children(t, f.current, 1) # Absent
                              THEN children(t, f.current, 1)
                              ELSE children(t, f.current, 0),
                  !.moves = @ + 1])

\* FindFallback with `while (current)` and no break: it records the first
\* payload and keeps descending until it leaves the trie.
RECURSIVE FindFallback_NoBreak(_, _)
FindFallback_NoBreak(t, f) ==
    IF f.current = Absent
    THEN f
    ELSE FindFallback_NoBreak(t, [f EXCEPT
             !.best = IF HasValue(t[f.current]) /\ ~HasValue(f.best)
                      THEN Some(PopAndPrefixLength(Value(t[f.current]), f.depth))
                      ELSE f.best,
             !.depth = @ + 1,
             !.current = IF children(t, f.current, 0) # Absent
                         THEN children(t, f.current, 0)
                         ELSE children(t, f.current, 1),
             !.moves = @ + 1])

\* FindFallback with `while (current)`, no break and best overwritten at
\* every payload on the way down: it returns the last payload met, not the
\* first.
RECURSIVE FindFallback_Deepest(_, _)
FindFallback_Deepest(t, f) ==
    IF f.current = Absent
    THEN f
    ELSE FindFallback_Deepest(t, [f EXCEPT
             !.best = IF HasValue(t[f.current])
                      THEN Some(PopAndPrefixLength(Value(t[f.current]), f.depth))
                      ELSE f.best,
             !.depth = @ + 1,
             !.current = IF children(t, f.current, 0) # Absent
                         THEN children(t, f.current, 0)
                         ELSE children(t, f.current, 1),
             !.moves = @ + 1])

\* The second loop of find (Phase B).
RECURSIVE FindFallback(_, _)
FindFallback(t, f) ==
    IF ~(f.current # Absent /\ ~HasValue(f.best))
    THEN f
    ELSE IF HasValue(t[f.current])
         THEN [f EXCEPT !.best = Some(PopAndPrefixLength(Value(t[f.current]), f.depth))]
         ELSE FindFallback(t, [f EXCEPT
                  !.depth = @ + 1,
                  !.current = IF children(t, f.current, 0) # Absent
                              THEN children(t, f.current, 0)
                              ELSE children(t, f.current, 1),
                  !.moves = @ + 1])

\* find that answers with the payload of the root (the /0 row) when both
\* loops left best unset.
find_DefaultRoute(t, prefix) ==
    LET a == FindWalk(t, [prefix |-> prefix, current |-> RootNode, depth |-> 0,
                          best |-> nullopt, moves |-> 0, pop_calls |-> 0])
        b == FindFallback(t, a)
    IN [best |-> IF ~HasValue(b.best) /\ HasValue(t[RootNode])
                 THEN Some(PopAndPrefixLength(Value(t[RootNode]), 0))
                 ELSE b.best,
        walk |-> a, last |-> b, root |-> t, prefix |-> prefix]

\* find that records the payload of the root before the first loop.
find_RootFirst(t, prefix) ==
    LET a == FindWalk(t, [prefix |-> prefix, current |-> RootNode, depth |-> 0,
                          best |-> IF HasValue(t[RootNode])
                                   THEN Some(PopAndPrefixLength(Value(t[RootNode]), 0))
                                   ELSE nullopt,
                          moves |-> 0, pop_calls |-> 0])
        b == FindFallback(t, a)
    IN [best |-> b.best, walk |-> a, last |-> b, root |-> t, prefix |-> prefix]

\* find with its parameter taken by reference: the caller's prefix is the
\* cursor that the first loop used up.
find_ByReference(t, prefix) ==
    LET a == FindWalk(t, [prefix |-> prefix, current |-> RootNode, depth |-> 0,
                          best |-> nullopt, moves |-> 0, pop_calls |-> 0])
        b == FindFallback(t, a)
    IN [best |-> b.best, walk |-> a, last |-> b, root |-> t, prefix |-> a.prefix]

\* find(prefix) on trie t: what it returns (best), with the locals at the end
\* of the first loop (walk) and at the return (last), and the trie (the
\* function is const) and the caller's prefix (the parameter is taken by
\* value) as they are after the call.
find(t, prefix) ==
    LET a == FindWalk(t, [prefix |-> prefix, current |-> RootNode, depth |-> 0,
                          best |-> nullopt, moves |-> 0, pop_calls |-> 0])
        b == FindFallback(t, a)
    IN [best |-> b.best, walk |-> a, last |-> b, root |-> t, prefix |-> prefix]

(***************************************************************************)
(* The program: parse_data() loads the table, then main() serves queries.  *)
(***************************************************************************)

Init ==
    /\ root = EmptyTrie
    /\ table = {}
    /\ lines = 0
    /\ failed = nullopt
    /\ query = nullopt
    /\ result = nullopt

\* One turn of the loop of parse_data(): t.insert(parse_entry(line)).  The
\* load comes before the first query, and std::abort() ends the process.
Insert(e) ==
    /\ failed = nullopt
    /\ query = nullopt
    /\ lines < MaxRows
    /\ lines' = lines + 1
    /\ LET i == insert(root, e) IN
         /\ root' = i.root
         /\ IF i.aborted
            THEN /\ failed' = Some(i.e)
                 /\ table' = table
            ELSE /\ failed' = failed
                 /\ table' = table \cup {i.e}
    /\ UNCHANGED << query, result >>

\* One turn of the loop of main(): process_route(t, parse_prefix(line)), on
\* the loaded trie.
Find(ecs) ==
    /\ failed = nullopt
    /\ LET f == find(root, ecs) IN
         /\ root' = f.root
         /\ query' = Some(f.prefix)
         /\ result' = Some(f)
    /\ UNCHANGED << table, lines, failed >>

Next ==
    \/ \E e \in prefix_and_pop : Insert(e)
    \/ \E ecs \in address_prefix : Find(ecs)

Spec == Init /\ [][Next]_vars

(***************************************************************************)
(* Vocabulary of the properties.  It is stated on prefixes and on tree     *)
(* positions, without the cursor and without the loops of the code.        *)
(***************************************************************************)

\* The top len bits of address a, as a number.
Top(a, len) == a \div Pow2(AddrBits - len)

\* The position named by the first len bits of address a: 1 is the root and
\* the position below n on bit b is 2n+b.
NodeAt(a, len) == Pow2(len) + Top(a, len)
NodeOf(p) == NodeAt(p.address, p.prefix_length)

\* Depth of position n, and its ancestor at depth d.
RECURSIVE Depth(_)
Depth(n) == IF n <= 1 THEN 0 ELSE 1 + Depth(n \div 2)
AncestorAt(n, d) == n \div Pow2(Depth(n) - d)
\* m lies strictly below n
Below(m, n) == Depth(m) > Depth(n) /\ AncestorAt(m, Depth(n)) = n

\* p and q name the same prefix: same length, same bits up to that length.
SamePrefix(p, q) ==
    /\ p.prefix_length = q.prefix_length
    /\ Top(p.address, p.prefix_length) = Top(q.address, p.prefix_length)

\* p is a prefix of q: not longer than q, and q starts with the bits of p.
Covers(p, q) ==
    /\ p.prefix_length <= q.prefix_length
    /\ Top(p.address, p.prefix_length) = Top(q.address, p.prefix_length)

\* The node at position n exists and holds a payload.
HoldsPayload(n) == n \in DOMAIN root /\ HasValue(root[n])

\* find has been called; its argument and what it returned.
Served == HasValue(query)
Q == Value(query)
R == Value(result)
Match(e) == Some(PopAndPrefixLength(e.pop, e.prefix.prefix_length))

\* The rows of the table that are prefixes of the query.
Covering == {e \in table : Covers(e.prefix, Q)}
IsLongestCovering(e) ==
    /\ e \in Covering
    /\ \A x \in Covering : x.prefix.prefix_length <= e.prefix.prefix_length

(***************************************************************************)
(* C1: after successful inserts, find on exactly the prefix of an inserted *)
(* row (a row of length 0 included) returns that row's PoP, with           *)
(* matched length equal to the length of the row.                          *)
(***************************************************************************)
C1_ExactMatch ==
    Served => \A e \in table : (Q = e.prefix) => (R.best = Match(e))

\* The query is the /0 row of a table that also holds rows below it.
C1_Witness ==
    /\ Served
    /\ Cardinality(table) >= 2
    /\ \E e \in table : Q = e.prefix /\ e.prefix.prefix_length = 0 /\ R.best = Match(e)

(***************************************************************************)
(* C2, as claimed: for rows P1, P2 that are both prefixes of the query,    *)
(* P2 longer than P1, find returns the PoP of P2; and (P2's PoP,           *)
(* length(P2)) when P2 is the longest row that is a prefix of the query.   *)
(***************************************************************************)
C2_AsClaimed ==
    Served =>
        \A p1, p2 \in Covering :
            (p2.prefix.prefix_length > p1.prefix.prefix_length) =>
                /\ HasValue(R.best)
                /\ Value(R.best).pop = p2.pop
                /\ IsLongestCovering(p2) => R.best = Match(p2)

(***************************************************************************)
(* C2, amended: for rows P1, P2 that are both prefixes of the query, P2    *)
(* longer than P1, find does not return P1: the matched length is at least *)
(* length(P2), and the result is (P2's PoP, length(P2)) when P2 is the     *)
(* longest row that is a prefix of the query.  (A third, longer row that   *)
(* is a prefix of the query wins over P2.)                                 *)
(***************************************************************************)
C2_LongestWins ==
    Served =>
        \A p1, p2 \in Covering :
            (p2.prefix.prefix_length > p1.prefix.prefix_length) =>
                /\ HasValue(R.best)
                /\ Value(R.best).prefix_length # p1.prefix.prefix_length
                /\ Value(R.best).prefix_length >= p2.prefix.prefix_length
                /\ IsLongestCovering(p2) => R.best = Match(p2)

\* Three nested rows with PoPs that tell them apart, all prefixes of the
\* query; the longest is returned.
C2_Witness ==
    /\ Served
    /\ \E p1, p2, p3 \in Covering :
          /\ p1.prefix.prefix_length < p2.prefix.prefix_length
          /\ p2.prefix.prefix_length < p3.prefix.prefix_length
          /\ p2.pop # p3.pop
          /\ R.best = Match(p3)

\* The query's bit path ends exactly on an existing node without payload
\* that has payloads below it.
LandsOnInnerNode ==
    /\ NodeOf(Q) \in DOMAIN root
    /\ ~HasValue(root[NodeOf(Q)])
    /\ \E m \in DOMAIN root : Below(m, NodeOf(Q)) /\ HasValue(root[m])

\* The rows of the table that lie strictly below the query.
BelowQuery == {e \in table : Below(NodeOf(e.prefix), NodeOf(Q))}

\* A node the walk enters (depth 1 .. length(Q) on the query's path) holds a
\* payload.
PayloadOnPath ==
    \E k \in 1 .. Q.prefix_length : HoldsPayload(NodeAt(Q.address, k))

(***************************************************************************)
(* C3, as claimed: whenever the query's bit path ends exactly on an        *)
(* existing node without payload that has payloads below it, find returns  *)
(* the PoP of one of the rows below, with that row's length, which is      *)
(* greater than the query's length.                                        *)
(***************************************************************************)
C3_AsClaimed ==
    (Served /\ LandsOnInnerNode) =>
        \E e \in BelowQuery :
            /\ R.best = Match(e)
            /\ e.prefix.prefix_length > Q.prefix_length

(***************************************************************************)
(* C3, amended: whenever the query's bit path ends exactly on an existing  *)
(* node without payload that has payloads below it, and no node entered on *)
(* the way (depth 1 .. length(Q)) holds a payload, find returns the PoP of *)
(* one of the rows below, with that row's length, which is greater than    *)
(* the query's length.                                                     *)
(***************************************************************************)
C3_FallbackBelow ==
    (Served /\ LandsOnInnerNode /\ ~PayloadOnPath) =>
        \E e \in BelowQuery :
            /\ R.best = Match(e)
            /\ e.prefix.prefix_length > Q.prefix_length

\* A query of length >= 1 lands on an inner node under a root that holds a
\* /0 row, and a row from below is returned.
C3_Witness ==
    /\ Served /\ LandsOnInnerNode /\ ~PayloadOnPath
    /\ Q.prefix_length >= 1
    /\ HoldsPayload(RootNode)
    /\ \E e \in BelowQuery : R.best = Match(e)

(***************************************************************************)
(* C4, as claimed: on every trie reachable by inserts, the empty one       *)
(* included, find returns "no entry" only when the first loop ended with   *)
(* current absent and best unset.                                          *)
(***************************************************************************)
C4_AsClaimed ==
    (Served /\ ~HasValue(R.best)) =>
        (R.walk.current = Absent /\ ~HasValue(R.walk.best))

(***************************************************************************)
(* C4, amended: find returns "no entry" only when the first loop ended     *)
(* with current absent and best unset, or when the trie is empty and the   *)
(* query has length 0 (the walk ends on the root, which has no payload and *)
(* no children); on a trie with at least one row, a walk that ends on an   *)
(* existing node never yields "no entry".                                  *)
(***************************************************************************)
C4_NoEntryOnlyOffTheEdge ==
    (Served /\ ~HasValue(R.best)) =>
        \/ R.walk.current = Absent /\ ~HasValue(R.walk.best)
        \/ table = {} /\ Q.prefix_length = 0

\* "No entry" for a query that runs off the edge of a full table.
C4_Witness ==
    /\ Served /\ ~HasValue(R.best)
    /\ Cardinality(table) = MaxRows
    /\ R.walk.current = Absent

(***************************************************************************)
(* C5: if walking the bits of the query reaches an absent child and no     *)
(* node entered during the walk holds a payload, find returns "no entry",  *)
(* also when the root holds a /0 row.                                      *)
(***************************************************************************)
C5_DivergesNoEntry ==
    (/\ Served
     /\ \E k \in 1 .. Q.prefix_length : NodeAt(Q.address, k) \notin DOMAIN root
     /\ ~PayloadOnPath)
        => ~HasValue(R.best)

\* The query leaves a trie whose root holds a /0 row, after entering at
\* least one node; the /0 row is not returned.
C5_Witness ==
    /\ Served
    /\ HoldsPayload(RootNode)
    /\ NodeAt(Q.address, 1) \in DOMAIN root
    /\ NodeOf(Q) \notin DOMAIN root
    /\ ~PayloadOnPath
    /\ ~HasValue(R.best)

\* find fell back: the first loop ended on an existing node with best unset.
FellBack == R.walk.current # Absent /\ ~HasValue(R.walk.best)

\* Position m is reached from position n by taking, at every node from n on,
\* the 0-child if it exists and otherwise the 1-child, and m is the first
\* node on that way that holds a payload.
ZeroFirstTarget(n, m) ==
    /\ m = n \/ Below(m, n)
    /\ HoldsPayload(m)
    /\ \A d \in Depth(n) .. (Depth(m) - 1) :
          LET x == AncestorAt(m, d) IN
          /\ x \in DOMAIN root
          /\ ~HasValue(root[x])
          /\ AncestorAt(m, d + 1) = IF (2 * x) \in DOMAIN root THEN 2 * x ELSE 2 * x + 1

(***************************************************************************)
(* C6: when find falls back from a landing node with rows below it, the    *)
(* row returned is the one reached from the landing node by taking at      *)
(* every node the 0-child if it exists and otherwise the 1-child (for      *)
(* sibling rows of length L+1 under a parent without payload: the 0-side   *)
(* sibling, with matched length L+1).  The row is determined by the trie   *)
(* and the query alone.                                                    *)
(***************************************************************************)
C6_FallbackZeroFirst ==
    (Served /\ FellBack /\ table # {}) =>
        \E e \in table :
            /\ ZeroFirstTarget(NodeOf(Q), NodeOf(e.prefix))
            /\ R.best = Match(e)
            /\ \A x \in table :
                  ZeroFirstTarget(NodeOf(Q), NodeOf(x.prefix)) => x = e

\* Two sibling rows of length L+1 with different PoPs under the query's
\* node, which holds no payload: the 0-side sibling is returned.
C6_Witness ==
    /\ Served /\ FellBack
    /\ \E e0, e1 \in table :
          /\ NodeOf(e0.prefix) = 2 * NodeOf(Q)
          /\ NodeOf(e1.prefix) = 2 * NodeOf(Q) + 1
          /\ e0.pop # e1.pop
          /\ R.best = Match(e0)
          /\ Value(R.best).prefix_length = Q.prefix_length + 1

(***************************************************************************)
(* C7: the row on the root is returned only as a fallback target: a result *)
(* with matched length 0 comes from the second loop, and for every table   *)
(* and every query of length >= 1 find never returns the row on the root   *)
(* (no result has matched length 0), even when the /0 row is the only row  *)
(* that is a prefix of the query.                                          *)
(***************************************************************************)
C7_RootOnlyByFallback ==
    (Served /\ HasValue(R.best)) =>
        /\ Value(R.best).prefix_length = 0 => (FellBack /\ Q.prefix_length = 0)
        /\ Q.prefix_length >= 1 =>
              /\ Value(R.best).prefix_length >= 1
              /\ \A e \in table : e.prefix.prefix_length = 0 => R.best # Match(e)

\* The /0 row is the only row that is a prefix of the query, other rows
\* exist, and the query gets "no entry".
C7_Witness ==
    /\ Served /\ Q.prefix_length >= 1
    /\ Cardinality(table) >= 2
    /\ Cardinality(Covering) = 1
    /\ \E e \in Covering : e.prefix.prefix_length = 0
    /\ ~HasValue(R.best)

(***************************************************************************)
(* C8: an insert whose prefix has the same length and the same address     *)
(* (the same bits up to that length) as a row already inserted ends in the *)
(* duplicate-prefix error and does not set the payload; an insert of a     *)
(* prefix not yet present never raises the error.  So: no two stored rows  *)
(* name the same prefix, every row read was either stored or is the one    *)
(* the load stopped at, and the load stopped only at a row whose prefix    *)
(* was stored before, whose payload is still the one on the node.          *)
(***************************************************************************)
C8_DuplicateRejected ==
    /\ \A x, y \in table : SamePrefix(x.prefix, y.prefix) => x = y
    /\ lines = Cardinality(table) + (IF HasValue(failed) THEN 1 ELSE 0)
    /\ HasValue(failed) =>
          \E x \in table :
              /\ SamePrefix(x.prefix, Value(failed).prefix)
              /\ root[NodeOf(x.prefix)] = Some(x.pop)

\* The load stopped at a row with the address and length of a stored row and
\* another PoP; the node kept the PoP of the stored row.
C8_Witness ==
    /\ HasValue(failed)
    /\ \E x \in table :
          /\ x.prefix = Value(failed).prefix
          /\ x.pop # Value(failed).pop
          /\ root[NodeOf(x.prefix)] = Some(x.pop)

\* The trie as a function of a set of rows with pairwise distinct prefixes:
\* the positions of the rows and of all their ancestors, with the PoP of a
\* row on its position and no payload elsewhere.
TrieOf(T) ==
    LET pos == {RootNode} \cup
               UNION {{NodeAt(e.prefix.address, d) : d \in 0 .. e.prefix.prefix_length} : e \in T}
    IN [n \in pos |-> IF \E e \in T : NodeOf(e.prefix) = n
                      THEN Some((CHOOSE e \in T : NodeOf(e.prefix) = n).pop)
                      ELSE nullopt]

(***************************************************************************)
(* C9: for every set of rows with pairwise distinct prefixes, inserting    *)
(* them in any order yields the same trie (same nodes, same payloads), and *)
(* so the same find result for every query: in every state reached by      *)
(* successful inserts, in whatever order, the trie is the one function     *)
(* TrieOf of the set of rows, and find answers as on that trie.            *)
(***************************************************************************)
C9_OrderIndependent ==
    ~HasValue(failed) =>
        /\ root = TrieOf(table)
        /\ Served => R.best = find(TrieOf(table), Q).best

\* A full table in which one row lies below another (so that one order
\* creates the upper node as an inner node and the other order finds it).
C9_Witness ==
    /\ ~HasValue(failed)
    /\ Cardinality(table) = MaxRows
    /\ \E x, y \in table : Below(NodeOf(x.prefix), NodeOf(y.prefix))
    /\ root = TrieOf(table)

(***************************************************************************)
(* C10: for every trie of prefixes of length <= AddrBits and every query   *)
(* of length <= AddrBits, find ends after at most length(Q) + AddrBits     *)
(* moves of current (both loops together), with a match or "no entry".     *)
(***************************************************************************)
C10_BoundedMoves ==
    Served =>
        /\ R.last.moves <= Q.prefix_length + AddrBits
        /\ \/ ~HasValue(R.best)
           \/ Value(R.best) \in [pop : Pops, prefix_length : 0 .. AddrBits]

\* A query of length 0 that falls back all the way down to a row of full
\* length: AddrBits moves, all of them in the second loop.
C10_Witness ==
    /\ Served
    /\ Q.prefix_length = 0
    /\ R.last.moves = AddrBits
    /\ HasValue(R.best)

\* C11: whenever find(Q) returns (pop, m), the table holds a row with PoP id
\* pop whose prefix length is exactly m and whose bits agree with Q on the
\* first min(m, len(Q)) bits; m is the length of that row, not of Q.
C11_AnswerIsARow ==
    (Served /\ HasValue(R.best)) =>
        \E e \in table :
            /\ e.pop = Value(R.best).pop
            /\ e.prefix.prefix_length = Value(R.best).prefix_length
            /\ LET k == IF e.prefix.prefix_length < Q.prefix_length
                        THEN e.prefix.prefix_length
                        ELSE Q.prefix_length
               IN Top(e.prefix.address, k) = Top(Q.address, k)

\* A query answered by the fallback with a row longer than the query, while
\* a row with the same PoP id and the length of the query sits elsewhere.
C11_Witness ==
    /\ Served
    /\ HasValue(R.best)
    /\ Value(R.best).prefix_length > Q.prefix_length
    /\ Q.prefix_length > 0
    /\ \E e \in table : /\ e.prefix.prefix_length = Q.prefix_length
                        /\ ~Covers(e.prefix, Q)

\* C12: the bits of an address beyond the prefix length influence neither
\* insert nor find: two prefixes of the same length that agree on the top
\* bits reach the same trie position (the insert of either gives the same
\* trie and the same verdict, and the second of the two is a duplicate), and
\* find answers both alike.
C12_LowBitsIgnored ==
    \A p1 \in address_prefix, p2 \in address_prefix :
        (SamePrefix(p1, p2) /\ p1.address # p2.address) =>
            /\ find(root, p1).best = find(root, p2).best
            /\ (Served /\ p1 = Q => R.best = find(root, p2).best)
            /\ \A c \in Pops :
                 LET i1 == insert(root, [prefix |-> p1, pop |-> c])
                     i2 == insert(root, [prefix |-> p2, pop |-> c])
                 IN /\ i1.root = i2.root
                    /\ i1.aborted = i2.aborted
                    /\ insert(i1.root, [prefix |-> p2, pop |-> c]).aborted

\* A query with set bits beyond its length is answered by a stored row with
\* the same length and top bits and another address.
C12_Witness ==
    /\ Served
    /\ \E e \in table :
          /\ SamePrefix(e.prefix, Q)
          /\ e.prefix.address # Q.address
          /\ R.best = Match(e)

\* C13: the nodes that hold a payload correspond one-to-one to the inserted
\* rows: a node holds a payload exactly when one row ends on it, the payload
\* is the PoP id of that row (it was never overwritten), and no second row
\* ends on the same node.
C13_PayloadsAreRows ==
    /\ \A n \in DOMAIN root :
          HasValue(root[n]) <=>
              Cardinality({e \in table : NodeOf(e.prefix) = n}) = 1
    /\ \A n \in DOMAIN root :
          Cardinality({e \in table : NodeOf(e.prefix) = n}) <= 1
    /\ \A e \in table :
          /\ NodeOf(e.prefix) \in DOMAIN root
          /\ root[NodeOf(e.prefix)] = Some(e.pop)

\* All rows but one stored, one of them below a node without payload, and a
\* further row turned away.
C13_Witness ==
    /\ Cardinality(table) = MaxRows - 1
    /\ HasValue(failed)
    /\ Cardinality({n \in DOMAIN root : HasValue(root[n])}) = MaxRows - 1
    /\ \E n \in DOMAIN root : n # RootNode /\ ~HasValue(root[n])

\* C14: in every state reachable by inserts, the state an insert leaves when
\* it stops at the duplicate error included, every node other than the root
\* holds a payload or has at least one child.
C14_NoEmptyLeaf ==
    \A n \in DOMAIN root :
        n # RootNode =>
            \/ HasValue(root[n])
            \/ children(root, n, 0) # Absent
            \/ children(root, n, 1) # Absent

\* An insert stopped at the duplicate error, in a trie with a node that has
\* no payload and a leaf at the full depth.
C14_Witness ==
    /\ HasValue(failed)
    /\ \E n \in DOMAIN root : n # RootNode /\ ~HasValue(root[n])
    /\ \E n \in DOMAIN root : Depth(n) = AddrBits

\* The cursor once all the bits of prefix p have been popped: the address
\* shifted left by the length, no bit remaining.
CursorAtEnd(p) ==
    [address |-> (p.address * Pow2(p.prefix_length)) % Pow2(AddrBits),
     prefix_length |-> 0]

\* The calls of pop_bit on a cursor with no bit remaining that the state
\* records, each as << cursor before, cursor after >>: the last call of the
\* insert of every row read so far, and the last call of a find that popped
\* every bit of its query.
ExhaustedCalls ==
    {<< CursorAtEnd(e.prefix), insert(root, e).prefix >> :
         e \in table \cup (IF HasValue(failed) THEN {Value(failed)} ELSE {})}
    \cup (IF Served /\ R.walk.pop_calls = Q.prefix_length + 1
          THEN {<< CursorAtEnd(Q), R.walk.prefix >>}
          ELSE {})

\* C15 as claimed: pop_bit on a cursor whose remaining length is 0 returns
\* none and does not mutate the cursor: the remaining length is still 0 and
\* the address is unchanged.
C15_AsClaimed ==
    \A c \in ExhaustedCalls :
        /\ pop_bit(c[1]).bit = nullopt
        /\ c[2].prefix_length = 0
        /\ c[2].address = c[1].address

\* C15, amended: pop_bit on a cursor whose remaining length is 0 returns none
\* and leaves the address unchanged, and the post-decrement wraps the
\* remaining length to the largest value of unsigned.
C15_ExhaustedWraps ==
    \A c \in ExhaustedCalls :
        /\ pop_bit(c[1]).bit = nullopt
        /\ c[2].address = c[1].address
        /\ c[2].prefix_length = UnsignedMax

\* A find that popped every bit of a query whose address still has set bits
\* at the exhausted call.
C15_Witness ==
    /\ Served
    /\ Q.prefix_length > 0
    /\ R.walk.pop_calls = Q.prefix_length + 1
    /\ CursorAtEnd(Q).address # 0
    /\ << CursorAtEnd(Q), R.walk.prefix >> \in ExhaustedCalls
    /\ R.walk.prefix.prefix_length = UnsignedMax

\* Position m lies on the way that starts at the root and takes at every
\* node the 0-child if it exists and otherwise the 1-child.
OnZeroFirstDescent(m) ==
    /\ m \in DOMAIN root
    /\ \A d \in 0 .. (Depth(m) - 1) :
          LET x == AncestorAt(m, d) IN
          AncestorAt(m, d + 1) = IF (2 * x) \in DOMAIN root THEN 2 * x ELSE 2 * x + 1

\* A query of length 0 served by a trie that holds rows, none on the root.
RootFallback ==
    /\ Served
    /\ Q.prefix_length = 0
    /\ ~HoldsPayload(RootNode)
    /\ table # {}

\* C16 as claimed: for a query of length 0 on a trie whose root holds no
\* payload, find enters the second loop at the root and returns the deepest
\* row on the 0-preferring descent from the root.
C16_AsClaimed ==
    RootFallback =>
        /\ FellBack
        /\ R.walk.current = RootNode
        /\ \E e \in table :
              /\ OnZeroFirstDescent(NodeOf(e.prefix))
              /\ R.best = Match(e)
              /\ \A x \in table :
                    OnZeroFirstDescent(NodeOf(x.prefix)) =>
                        x.prefix.prefix_length <= e.prefix.prefix_length

\* C16, amended: for a query of length 0 on a trie whose root holds no
\* payload, find enters the second loop at the root and returns the first
\* (shallowest) row on the 0-preferring descent from the root; the rows
\* deeper on that descent are not returned.
C16_FirstOnDescent ==
    RootFallback =>
        /\ FellBack
        /\ R.walk.current = RootNode
        /\ \E e \in table :
              /\ OnZeroFirstDescent(NodeOf(e.prefix))
              /\ R.best = Match(e)
              /\ \A x \in table :
                    OnZeroFirstDescent(NodeOf(x.prefix)) =>
                        x.prefix.prefix_length >= e.prefix.prefix_length

\* Two rows with different PoP ids on the descent, one below the other: the
\* query of length 0 gets the upper one.
C16_Witness ==
    /\ RootFallback
    /\ \E e1, e2 \in table :
          /\ OnZeroFirstDescent(NodeOf(e1.prefix))
          /\ OnZeroFirstDescent(NodeOf(e2.prefix))
          /\ e1.prefix.prefix_length < e2.prefix.prefix_length
          /\ e1.pop # e2.pop
          /\ R.best = Match(e1)

\* C17: find leaves the trie unchanged (no node created or removed, no
\* payload changed), and insert and find work on their own copy of the
\* prefix: the caller's prefix (address and length) is the same after the
\* call as before.
C17_CallerKeepsPrefix ==
    [][/\ \A ecs \in address_prefix :
             Find(ecs) => /\ root' = root
                          /\ query' = Some(ecs)
                          /\ Value(result').prefix = ecs
       /\ \A e \in prefix_and_pop :
             Insert(e) => /\ insert(root, e).e = e
                          /\ IF HasValue(failed')
                             THEN failed' = Some(e)
                             ELSE table' = table \cup {e}]_vars

\* A find that popped every bit of a query of full length: its own cursor is
\* used up while the query the caller holds is as it was, on a trie of
\* several nodes.
C17_Witness ==
    /\ Served
    /\ Q.prefix_length = AddrBits
    /\ Q.address # 0
    /\ R.prefix = Q
    /\ R.walk.prefix # Q
    /\ R.walk.pop_calls = AddrBits + 1
    /\ R.root = root
    /\ Cardinality(DOMAIN root) > AddrBits

\* C18: an insert that ends in the duplicate-prefix error creates no node and
\* leaves every payload as it was: the trie at the moment of the error
\* equals the trie before the call.
C18_ErrorLeavesTrie ==
    [][\A e \in prefix_and_pop :
           (Insert(e) /\ HasValue(failed')) =>
               /\ DOMAIN root' = DOMAIN root
               /\ \A n \in DOMAIN root : root'[n] = root[n]
               /\ table' = table]_vars

\* An insert stopped at the duplicate error on a row whose PoP id differs
\* from the one stored, at the full depth of the trie.
C18_Witness ==
    /\ HasValue(failed)
    /\ Value(failed).prefix.prefix_length = AddrBits
    /\ \E e \in table :
          /\ SamePrefix(e.prefix, Value(failed).prefix)
          /\ e.pop # Value(failed).pop
          /\ root[NodeOf(e.prefix)] = Some(e.pop)

\* C19: within insert and within find, pop_bit is never called on a cursor
\* after it has returned none: a call of insert or find makes at most
\* length + 1 calls of pop_bit, of which only the last can return none, and
\* the second loop of find makes no call; so the remaining length that the
\* exhausted call leaves behind is never read.
C19_NoPopAfterNone ==
    /\ Served =>
          /\ R.walk.pop_calls <= Q.prefix_length + 1
          /\ R.walk.pop_calls >= 1
          /\ R.last.pop_calls = R.walk.pop_calls
          /\ IF R.walk.pop_calls = Q.prefix_length + 1
             THEN R.walk.prefix.prefix_length = UnsignedMax
             ELSE R.walk.prefix.prefix_length = Q.prefix_length - R.walk.pop_calls
    /\ \A e \in prefix_and_pop :
          LET i == insert(root, e) IN
          /\ i.pop_calls = e.prefix.prefix_length + 1
          /\ i.prefix.prefix_length = UnsignedMax

\* A find whose first loop popped every bit of the query and met none, and
\* whose second loop then went down the trie.
C19_Witness ==
    /\ Served
    /\ FellBack
    /\ Q.prefix_length > 0
    /\ R.walk.pop_calls = Q.prefix_length + 1
    /\ R.walk.prefix.prefix_length = UnsignedMax
    /\ R.last.moves > R.walk.moves
    /\ R.last.pop_calls = R.walk.pop_calls

====
